---- MODULE Spec2Model ----
(***************************************************************************)
(* A model of skim's ordered result buffer (src/src/orderedvec.rs), of     *)
(* the default methods of the SkimItem trait (src/src/lib.rs) and of the   *)
(* terminal UI wrapper (src/src/tui.rs).                                   *)
(*                                                                         *)
(* Pointers into a slice are modelled as 0-based offsets, as in the Rust   *)
(* code; TLA+ sequences are 1-based, so the element a pointer p designates *)
(* is s[p + 1].                                                            *)
(***************************************************************************)
EXTENDS Integers, Sequences, FiniteSets, TLC

\* orderedvec.rs:9
ORDERED_SIZE == 300

\* Bounds of the small ordered-buffer specification (Spec).
MaxLen == 3      \* number of distinct items that can be appended between two clears
MaxBatch == 2    \* longest batch handed to append_ordered
MaxClears == 1   \* number of clear calls
NKeys == 2       \* number of distinct ranking keys; equal keys compare Equal
\* Bound of the specification of the items (SpecItem).
MaxChunks == 2   \* characters and escape sequences in the text of an item
\* Bounds of the specifications of the terminal UI (SpecTui, SpecFinish).
MaxTyped == 2    \* number of key events the terminal produces
MaxPollErr == 1  \* number of failed calls of poll_event
\* Bound of the specification of the height options (SpecHeight).
MaxHeightLen == 3 \* longest height string
\* Bound of the specification of merge (SpecMerge).
MaxMergeLen == 4 \* longest slice given to merge
\* Bound of the specification that fills the buffer beyond ORDERED_SIZE (SpecBig).
BigExtra == 2    \* items appended besides the one large batch

VARIABLES
    vec,        \* OrderedVec.vec
    compare,    \* OrderedVec.compare: the name of the comparator given to new
    epoch,      \* history: number of clear calls so far (the items' generation)
    appended,   \* history: the items appended since the last clear
    last,       \* history: the last call, with the arguments it gave to merge
    seen,       \* history: the merge branches that had to order an old and a new
                \*          item comparing Equal, since the last clear
    dropped,    \* history: the number of items the clear calls removed
    mpc,        \* merge, run step by step: where the call stands
    mg,         \* merge, run step by step: v, buf, the hole and the pointers
    margs,      \* merge, run step by step: the arguments of the call
    mdone       \* history: the branches of merge that have returned after
                \*          ordering elements of the two runs comparing Equal

ovVars == <<vec, compare, epoch, appended, last, seen, dropped>>
mergeVars == <<mpc, mg, margs, mdone>>

VARIABLES
    tui,        \* the TUI value: whether the caller holds one, its term and
                \*   input_thread fields, its heights and no_mouse
    term,       \* the terminal (tuikit's Term): the result of acquiring it, its
                \*   queue of events, its options
    thr,        \* the input thread: where it stands, the translated events it
                \*   has still to send
    chan,       \* the event channel to the coordinator: the events sent, and
                \*   whether the receiver is still there
    status,     \* the program: "running", or "panicked"
    typed,      \* history: the number of key events the terminal produced
    opts,       \* history: the options given to TUI::new
    polled,     \* history: what the calls of poll_event in the input thread
                \*          returned, in order ("Err" for a failed call)
    did         \* history: the calls finish made, in order

tuiVars == <<tui, term, thr, chan, status, typed, opts, polled, did>>

VARIABLES
    item,       \* a value implementing SkimItem, once one is made
    calls       \* what its methods returned, once called

itemVars == <<item, calls>>
vars == <<ovVars, mergeVars, tuiVars, itemVars>>

Min(a, b) == IF a <= b THEN a ELSE b

\* Option<T>: None is the empty sequence, Some(x) the sequence of x alone.
None == <<>>
Some(x) == <<x>>

(***************************************************************************)
(* Items and comparators.  An item carries a ranking key, its insertion    *)
(* index and the generation it was matched in.                             *)
(***************************************************************************)
Item(k, i, g) == [key |-> k, idx |-> i, gen |-> g]

\* A comparator that is a total preorder: items of equal key compare Equal.
CompareByKey(a, b) ==
    IF a.key < b.key THEN "Less"
    ELSE IF a.key > b.key THEN "Greater"
    ELSE "Equal"

\* A comparator whose final tie-break is the insertion index.
CompareByKeyIdx(a, b) ==
    IF a.key < b.key THEN "Less"
    ELSE IF a.key > b.key THEN "Greater"
    ELSE IF a.idx < b.idx THEN "Less"
    ELSE IF a.idx > b.idx THEN "Greater"
    ELSE "Equal"

Comparators == {"ByKey", "ByKeyIdx"}

\* CompareFunction<T>: the boxed comparator, applied.
CompareFunction(c, a, b) ==
    IF c = "ByKey" THEN CompareByKey(a, b) ELSE CompareByKeyIdx(a, b)

\* The closure append_ordered hands to merge.
is_less(c, a, b) == CompareFunction(c, a, b) = "Less"

(***************************************************************************)
(* merge and its MergeHole.  A merge in progress is the record             *)
(*   fwd   : TRUE in the branch "the left run is shorter"                  *)
(*   v, buf: the slice and the temporary storage                           *)
(*   start, end, dest: the fields of MergeHole (start, end offsets in buf, *)
(*           dest an offset in v)                                          *)
(*   right : the pointer right of the forward branch (offset in v)         *)
(*   out   : the pointer out of the backward branch (offset in v)          *)
(* In the forward branch left is hole.start and out is hole.dest; in the   *)
(* backward branch left is hole.dest and right is hole.end.                *)
(***************************************************************************)
\* ptr::copy_nonoverlapping(src + from, dst + to, n)
copy_nonoverlapping(src, from, dst, to, n) ==
    [i \in 1..Len(dst) |->
        IF to < i /\ i <= to + n THEN src[from + (i - to)] ELSE dst[i]]

\* The code of merge up to the loop: copy the shorter run into buf, build hole.
MergeBegin(v, mid, buf) ==
    LET len == Len(v) IN
    IF mid <= len - mid
    THEN [fwd |-> TRUE, v |-> v, len |-> len,
          buf |-> copy_nonoverlapping(v, 0, buf, 0, mid),
          start |-> 0, end |-> mid, dest |-> 0,
          right |-> mid, out |-> 0]
    ELSE [fwd |-> FALSE, v |-> v, len |-> len,
          buf |-> copy_nonoverlapping(v, mid, buf, 0, len - mid),
          start |-> 0, end |-> len - mid, dest |-> mid,
          right |-> 0, out |-> len]

\* The loop conditions of the two branches.
MergeLoopCond(m) ==
    IF m.fwd
    THEN m.start < m.end /\ m.right < m.len
    ELSE 0 < m.dest /\ 0 < m.end

\* A faulty forward iteration: on a tie the right run is consumed.
MergeStepFwdTakesRightOnTie(c, m) ==
    IF ~is_less(c, m.buf[m.start + 1], m.v[m.right + 1])
    THEN [m EXCEPT !.v[m.dest + 1] = m.v[m.right + 1],
                   !.right = m.right + 1, !.dest = m.dest + 1]
    ELSE [m EXCEPT !.v[m.dest + 1] = m.buf[m.start + 1],
                   !.start = m.start + 1, !.dest = m.dest + 1]

\* One iteration of the forward loop: consume the lesser side, left on ties.
MergeStepFwd(c, m) ==
    IF is_less(c, m.v[m.right + 1], m.buf[m.start + 1])
    THEN [m EXCEPT !.v[m.dest + 1] = m.v[m.right + 1],
                   !.right = m.right + 1, !.dest = m.dest + 1]
    ELSE [m EXCEPT !.v[m.dest + 1] = m.buf[m.start + 1],
                   !.start = m.start + 1, !.dest = m.dest + 1]

\* A faulty backward iteration: on a tie the left run is consumed.
MergeStepBwdTakesLeftOnTie(c, m) ==
    IF ~is_less(c, m.v[m.dest], m.buf[m.end])
    THEN [m EXCEPT !.v[m.out] = m.v[m.dest],
                   !.dest = m.dest - 1, !.out = m.out - 1]
    ELSE [m EXCEPT !.v[m.out] = m.buf[m.end],
                   !.end = m.end - 1, !.out = m.out - 1]

\* One iteration of the backward loop: consume the greater side, right on ties.
MergeStepBwd(c, m) ==
    IF is_less(c, m.buf[m.end], m.v[m.dest])
    THEN [m EXCEPT !.v[m.out] = m.v[m.dest],
                   !.dest = m.dest - 1, !.out = m.out - 1]
    ELSE [m EXCEPT !.v[m.out] = m.buf[m.end],
                   !.end = m.end - 1, !.out = m.out - 1]

MergeStep(c, m) == IF m.fwd THEN MergeStepFwd(c, m) ELSE MergeStepBwd(c, m)

\* A faulty drop: the rest of the shorter run is not copied back.
MergeHoleDropNothing(m) == m.v

\* A faulty drop: the buffer is copied back from its first slot.
MergeHoleDropFromBufStart(m) ==
    copy_nonoverlapping(m.buf, 0, m.v, m.dest, m.end - m.start)

\* impl Drop for MergeHole: copy the range start..end of buf into dest.. of v.
MergeHoleDrop(m) ==
    copy_nonoverlapping(m.buf, m.start, m.v, m.dest, m.end - m.start)

\* The while loop of merge, run until its condition fails.  Every iteration
\* consumes one element of one run, so the loop makes at most len iterations;
\* MergeIterate(c, m, k) runs up to k of them (by halves, which keeps the depth
\* of the evaluation logarithmic).
RECURSIVE MergeIterate(_, _, _)
MergeIterate(c, m, k) ==
    IF k = 0 \/ ~MergeLoopCond(m) THEN m
    ELSE IF k = 1 THEN MergeStep(c, m)
    ELSE MergeIterate(c, MergeIterate(c, m, k \div 2), k - (k \div 2))

MergeLoop(c, m) == MergeIterate(c, m, m.len)

\* A faulty merge: the two runs are left as they stand.
mergeNothing(c, v, mid, buf) == v

\* merge(v, mid, buf, is_less): the contents of v when merge returns.
merge(c, v, mid, buf) == MergeHoleDrop(MergeLoop(c, MergeBegin(v, mid, buf)))

(***************************************************************************)
(* OrderedVec                                                              *)
(***************************************************************************)
\* Is the sequence s in non-decreasing order of comparator c?
IsSorted(c, s) ==
    \A i \in 1..(Len(s) - 1) : CompareFunction(c, s[i], s[i + 1]) # "Greater"

\* A faulty sort: the batch is left in the order it came in.
par_sort_skipped(c, s) == {s}

\* items.par_sort_unstable_by(compare): the sort is not stable, so the result
\* is any arrangement of the items that is sorted by the comparator.  When no
\* two items compare Equal there is one such arrangement, in which an item
\* stands right after the items less than it; that case is computed directly.
par_sort_unstable_by(c, s) ==
    LET n == Len(s)
        below == [i \in 1..n |->
                     Cardinality({j \in 1..n : is_less(c, s[j], s[i])})] \o <<>>
    IN IF \A i \in 1..n : \A j \in (i + 1)..n : below[i] # below[j]
       THEN {[k \in 1..n |-> s[CHOOSE i \in 1..n : below[i] = k - 1]] \o <<>>}
       ELSE {t \in {[k \in 1..n |-> s[p[k]]] : p \in Permutations(1..n)} :
                IsSorted(c, t)}

NoCall == [op |-> "new", mid |-> 0, len |-> 0, cap |-> 0]

\* OrderedVec::new
new(c) ==
    /\ vec = <<>>
    /\ compare = c

\* OrderedVec::append_ordered(items).  The buffer given to merge is the
\* allocation of the drained vector items: its capacity is at least the batch
\* length (exactly that here) and it still holds the bits of the sorted batch.
append_ordered(items) ==
    \E sorted \in par_sort_unstable_by(compare, items) :
        LET mid == Len(vec) IN
        /\ vec' = merge(compare, vec \o sorted, mid, sorted)
        /\ appended' = appended \cup {items[i] : i \in 1..Len(items)}
        /\ last' = [NoCall EXCEPT !.op = "append", !.mid = mid,
                                  !.len = mid + Len(items), !.cap = Len(items)]
        /\ seen' = IF \E i \in 1..mid : \E j \in 1..Len(items) :
                          CompareFunction(compare, vec[i], items[j]) = "Equal"
                   THEN seen \cup {IF mid <= Len(items) THEN "fwd" ELSE "bwd"}
                   ELSE seen
        /\ UNCHANGED <<compare, epoch, dropped>>

\* A faulty get: the index taken as 1-based.
getOneBased(index) ==
    IF 0 < index /\ index <= Len(vec) THEN Some(vec[index]) ELSE None

\* OrderedVec::get(index)
get(index) == IF index < Len(vec) THEN Some(vec[index + 1]) ELSE None

\* OrderedVec::len
len == Len(vec)

\* OrderedVec::is_empty
is_empty == vec = <<>>

\* OrderedVec::iter
iter == vec

\* A faulty clear: the first element stays.
clearKeepsFirst == IF vec = <<>> THEN <<>> ELSE <<vec[1]>>

\* OrderedVec::clear: the vector after self.vec.clear().
clearedVec == <<>>

clear ==
    /\ epoch < MaxClears
    /\ vec' = clearedVec
    /\ epoch' = epoch + 1
    /\ appended' = {}
    /\ last' = [NoCall EXCEPT !.op = "clear"]
    /\ seen' = {}
    /\ dropped' = dropped + Len(vec)
    /\ UNCHANGED compare

(***************************************************************************)
(* Spec: the buffer under arbitrary small batches.  Every item appended    *)
(* between two clears has its own insertion index; its key is arbitrary.   *)
(***************************************************************************)
Unused == (1..MaxLen) \ {x.idx : x \in appended}

Batches ==
    LET pool == {Item(k, i, epoch) : k \in 1..NKeys, i \in Unused} IN
    {b \in UNION {[1..n -> pool] : n \in 0..MaxBatch} :
        \A i, j \in 1..Len(b) : i # j => b[i].idx # b[j].idx}

\* The state of the history variables after OrderedVec::new.
NoHistory ==
    /\ epoch = 0
    /\ appended = {}
    /\ last = NoCall
    /\ seen = {}
    /\ dropped = 0

\* No call of merge under way.
MergeIdle ==
    /\ mpc = "idle"
    /\ mg = MergeBegin(<<>>, 0, <<>>)
    /\ margs = [v |-> <<>>, mid |-> 0, cap |-> 0]
    /\ mdone = {}

NoTerm == [acquired |-> "no", queue |-> <<>>, mouse |-> FALSE,
           min_height |-> None, height |-> None, paused |-> FALSE]

\* Before TUI::new.
NoTui ==
    /\ tui = [state |-> "none", term |-> None, input_thread |-> None,
              no_mouse |-> FALSE, min_height |-> None, height |-> None]
    /\ term = NoTerm
    /\ thr = [pc |-> "none", pending |-> <<>>]
    /\ chan = [sent |-> <<>>, receiver |-> TRUE]
    /\ status = "running"
    /\ typed = 0
    /\ opts = None
    /\ polled = <<>>
    /\ did = <<>>

\* No item made yet.
NoItem ==
    /\ item = None
    /\ calls = [ranges |-> None, output |-> None, text |-> None]

Init ==
    /\ \E c \in Comparators : new(c)
    /\ NoHistory
    /\ MergeIdle
    /\ NoTui
    /\ NoItem

AppendOrdered ==
    /\ \E items \in Batches : append_ordered(items)
    /\ UNCHANGED <<mergeVars, tuiVars, itemVars>>

Clear ==
    /\ clear
    /\ UNCHANGED <<mergeVars, tuiVars, itemVars>>

Next == AppendOrdered \/ Clear

Spec == Init /\ [][Next]_vars

(***************************************************************************)
(* SpecBig: the buffer filled beyond ORDERED_SIZE.  One large batch of     *)
(* ORDERED_SIZE items of pairwise distinct keys (handed over in            *)
(* decreasing order) and a few items, one per call, whose keys fall below, *)
(* inside (tying with an item of the large batch) and above the large      *)
(* batch, in any order of arrival.                                         *)
(***************************************************************************)
BigN == ORDERED_SIZE

BigItems == [i \in 1..BigN |-> Item(2 * (BigN + 1 - i), i, epoch)]

BigKeys == {1, ORDERED_SIZE, 2 * ORDERED_SIZE + 1}

BigUnused == ((BigN + 1)..(BigN + BigExtra)) \ {x.idx : x \in appended}

BigBatches ==
    LET pool == {Item(k, i, epoch) : k \in BigKeys, i \in BigUnused} IN
    {b \in UNION {[1..n -> pool] : n \in 0..1} :
        \A i, j \in 1..Len(b) : i # j => b[i].idx # b[j].idx}

InitBig ==
    /\ new("ByKey")
    /\ NoHistory
    /\ MergeIdle
    /\ NoTui
    /\ NoItem

AppendLarge ==
    /\ \A x \in appended : x.idx > BigN
    /\ append_ordered(BigItems)
    /\ UNCHANGED <<mergeVars, tuiVars, itemVars>>

AppendSmall ==
    /\ \E items \in BigBatches : append_ordered(items)
    /\ UNCHANGED <<mergeVars, tuiVars, itemVars>>

NextBig == AppendLarge \/ AppendSmall

SpecBig == InitBig /\ [][NextBig]_vars

(***************************************************************************)
(* SpecMerge: merge run step by step on every slice of at most MaxMergeLen *)
(* elements made of two non-decreasing runs (an empty run included, as     *)
(* append_ordered calls it), with a buffer that holds the shorter run or   *)
(* one element more.  The elements are told apart by their position in the *)
(* slice (idx); is_less compares the keys only.  The buffer is a fresh     *)
(* allocation: merge writes a slot of it before it reads it, the value     *)
(* Uninit stands for a slot never written.                                 *)
(***************************************************************************)
Uninit == Item(0, 0, 0)

MergeInputs ==
    {a \in [v : UNION {[1..n -> 1..NKeys] : n \in 0..MaxMergeLen},
            mid : 0..MaxMergeLen, cap : 0..(MaxMergeLen \div 2 + 1)] :
        /\ a.mid <= Len(a.v)
        /\ \A i \in 1..(Len(a.v) - 1) : i # a.mid => a.v[i] <= a.v[i + 1]
        /\ a.cap - Min(a.mid, Len(a.v) - a.mid) \in {0, 1}}

\* The call: the code of merge up to its loop.
MergeCall ==
    /\ mpc \in {"idle", "done"}
    /\ \E a \in MergeInputs :
          LET v == [i \in 1..Len(a.v) |-> Item(a.v[i], i, 0)] IN
          /\ margs' = [a EXCEPT !.v = v]
          /\ mg' = MergeBegin(v, a.mid, [i \in 1..a.cap |-> Uninit])
    /\ mpc' = "loop"
    /\ UNCHANGED <<mdone, ovVars, tuiVars, itemVars>>

\* One iteration of the loop of the branch taken.
MergeIteration ==
    /\ mpc = "loop"
    /\ MergeLoopCond(mg)
    /\ mg' = MergeStep("ByKey", mg)
    /\ UNCHANGED <<mpc, margs, mdone, ovVars, tuiVars, itemVars>>

\* The loop is left and merge returns: hole is dropped.
MergeReturn ==
    /\ mpc = "loop"
    /\ ~MergeLoopCond(mg)
    /\ mg' = [mg EXCEPT !.v = MergeHoleDrop(mg)]
    /\ mpc' = "done"
    /\ mdone' = IF \E i \in 1..margs.mid : \E j \in (margs.mid + 1)..mg.len :
                      margs.v[i].key = margs.v[j].key
                THEN mdone \cup {IF mg.fwd THEN "fwd" ELSE "bwd"}
                ELSE mdone
    /\ UNCHANGED <<margs, ovVars, tuiVars, itemVars>>

\* is_less panics in an iteration of the loop (the comparator is the caller's
\* code): the stack is unwound, hole is dropped, merge does not return.
MergePanic ==
    /\ mpc = "loop"
    /\ MergeLoopCond(mg)
    /\ mg' = [mg EXCEPT !.v = MergeHoleDrop(mg)]
    /\ mpc' = "panicked"
    /\ UNCHANGED <<margs, mdone, ovVars, tuiVars, itemVars>>

InitMerge ==
    /\ new("ByKey")
    /\ NoHistory
    /\ MergeIdle
    /\ NoTui
    /\ NoItem

NextMerge == MergeCall \/ MergeIteration \/ MergeReturn \/ MergePanic

SpecMerge == InitMerge /\ [][NextMerge]_vars


(***************************************************************************)
(* TUI (src/src/tui.rs).  Strings are sequences of one-character strings.  *)
(***************************************************************************)
Digits == <<"0", "1", "2", "3", "4", "5", "6", "7", "8", "9">>

IsDigit(ch) == \E d \in 1..10 : Digits[d] = ch

DigitValue(ch) == (CHOOSE d \in 1..10 : Digits[d] = ch) - 1

RECURSIVE DecimalValue(_)
DecimalValue(str) ==
    IF str = <<>> THEN 0
    ELSE 10 * DecimalValue(SubSeq(str, 1, Len(str) - 1)) + DigitValue(str[Len(str)])

\* str.parse::<usize>(): Some(n) for an optional '+' followed by one decimal
\* digit or more (the strings here are too short to overflow a usize), else
\* None (an Err).
parse(str) ==
    LET digits == IF str # <<>> /\ str[1] = "+" THEN Tail(str) ELSE str IN
    IF digits # <<>> /\ \A i \in 1..Len(digits) : IsDigit(digits[i])
    THEN Some(DecimalValue(digits))
    ELSE None

\* Option::unwrap_or
unwrap_or(opt, default) == IF opt = None THEN default ELSE opt[1]

\* A faulty parse_height_string: the '%' is left in the string that is parsed.
parse_height_with_percent_sign(string) ==
    IF string # <<>> /\ string[Len(string)] = "%"
    THEN [kind |-> "Percent", n |-> unwrap_or(parse(string), 100)]
    ELSE [kind |-> "Fixed", n |-> unwrap_or(parse(string), 0)]

\* TUI::parse_height_string
parse_height_string(string) ==
    IF string # <<>> /\ string[Len(string)] = "%"
    THEN [kind |-> "Percent",
          n |-> unwrap_or(parse(SubSeq(string, 1, Len(string) - 1)), 100)]
    ELSE [kind |-> "Fixed", n |-> unwrap_or(parse(string), 0)]

\* The values of SkimOptions.height and SkimOptions.min_height.
HeightOptions == {None, Some(<<"1", "0">>), Some(<<"5", "0", "%">>)}

SkimOptions == [min_height : HeightOptions, height : HeightOptions, no_mouse : BOOLEAN]

\* The events the terminal produces: keys, and the wakeup User1.
Keys == {"a", "b", "u"}
User1 == "User1"

\* input.translate_event(key): the events bound to the key, none for a key
\* that is not bound.
translate_event(key) ==
    IF key = "a" THEN <<"EvA">>
    ELSE IF key = "b" THEN <<"EvB1", "EvB2">>
    ELSE <<>>

\* TUI::new(tx, options): the two expect calls panic on an absent height.
TuiNewFrom(options) ==
    /\ opts' = Some(options)
    /\ IF options.min_height = None \/ options.height = None
       THEN /\ status' = "panicked"
            /\ UNCHANGED tui
       ELSE /\ tui' = [state |-> "held", term |-> None, input_thread |-> None,
                       no_mouse |-> options.no_mouse,
                       min_height |-> Some(parse_height_string(options.min_height[1])),
                       height |-> Some(parse_height_string(options.height[1]))]
            /\ UNCHANGED status

TuiNew ==
    /\ status = "running"
    /\ tui.state = "none"
    /\ \E options \in SkimOptions : TuiNewFrom(options)
    /\ UNCHANGED <<term, thr, chan, typed, polled, did, ovVars, mergeVars, itemVars>>

\* TUI::render(mut self).  Term::with_options succeeds or fails (no terminal);
\* unwrap panics on the failure.  On success the terminal gets the heights,
\* mouse support is asked for unless no_mouse (its result is dropped), and the
\* input thread is spawned.  render owns self: the values stored in self.term
\* and self.input_thread are dropped with it when render returns, which leaves
\* the thread detached and the caller without a TUI.
TuiRender ==
    /\ status = "running"
    /\ tui.state = "held"
    /\ \E acquired \in BOOLEAN, mouse_ok \in BOOLEAN :
          IF ~acquired
          THEN /\ term' = [term EXCEPT !.acquired = "failed"]
               /\ status' = "panicked"
               /\ tui' = [tui EXCEPT !.state = "dropped"]
               /\ UNCHANGED thr
          ELSE /\ term' = [term EXCEPT !.acquired = "ok",
                                       !.min_height = tui.min_height,
                                       !.height = tui.height,
                                       !.mouse = ~tui.no_mouse /\ mouse_ok]
               /\ thr' = [pc |-> "poll", pending |-> <<>>]
               /\ tui' = [tui EXCEPT !.state = "dropped",
                                     !.term = Some("Term"),
                                     !.input_thread = Some("JoinHandle")]
               /\ UNCHANGED status
    /\ UNCHANGED <<chan, typed, opts, polled, did, ovVars, mergeVars, itemVars>>

\* TUI::with_term(self, cb): cb is called when self.term is Some.
TuiWithTerm ==
    /\ status = "running"
    /\ tui.state = "held"
    /\ tui' = [tui EXCEPT !.state = IF tui.term = None THEN "dropped" ELSE "called back"]
    /\ UNCHANGED <<term, thr, chan, status, typed, opts, polled, did,
                   ovVars, mergeVars, itemVars>>

\* TUI::finish(mut self), up to the join.  With a terminal and an input thread
\* the wakeup User1 is sent to the terminal (send_event queues it or fails; the
\* result is dropped) and the thread is to be joined; otherwise nothing is
\* done and self is dropped.
TuiFinish ==
    /\ status = "running"
    /\ tui.state = "held"
    /\ IF tui.term # None /\ tui.input_thread # None
       THEN /\ \E queued \in BOOLEAN :
                  term' = [term EXCEPT !.queue = IF queued THEN Append(@, User1) ELSE @]
            /\ tui' = [tui EXCEPT !.state = "joining"]
            /\ did' = Append(did, "send_event")
       ELSE /\ tui' = [tui EXCEPT !.state = "dropped"]
            /\ UNCHANGED <<term, did>>
    /\ UNCHANGED <<thr, chan, status, typed, opts, polled, ovVars, mergeVars, itemVars>>

\* A faulty join: it returns while the thread runs.
join_returns_at_once(t) == TRUE

\* JoinHandle::join returns once the thread has left its closure.
join_returns(t) == t.pc = "exited"

\* TUI::finish: input_thread.join() returns; self.input_thread = None.
TuiFinishJoin ==
    /\ status = "running"
    /\ tui.state = "joining"
    /\ join_returns(thr)
    /\ tui' = [tui EXCEPT !.state = "joined", !.input_thread = None]
    /\ did' = Append(did, "join")
    /\ UNCHANGED <<term, thr, chan, status, typed, opts, polled,
                   ovVars, mergeVars, itemVars>>

\* TUI::finish: term.pause() (its result is dropped); self.term = None; finish
\* returns and self is dropped.
TuiFinishPause ==
    /\ status = "running"
    /\ tui.state = "joined"
    /\ \E ok \in BOOLEAN : term' = [term EXCEPT !.paused = ok]
    /\ tui' = [tui EXCEPT !.state = "dropped", !.term = None]
    /\ did' = Append(did, "pause")
    /\ UNCHANGED <<thr, chan, status, typed, opts, polled, ovVars, mergeVars, itemVars>>

\* The terminal produces a key event.
TermKey ==
    /\ term.acquired = "ok"
    /\ typed < MaxTyped
    /\ \E key \in Keys : term' = [term EXCEPT !.queue = Append(term.queue, key)]
    /\ typed' = typed + 1
    /\ UNCHANGED <<tui, thr, chan, status, opts, polled, did, ovVars, mergeVars, itemVars>>

\* The coordinator drops the receiver of the event channel.
ReceiverDropped ==
    /\ chan.receiver
    /\ tui.state # "none"
    /\ chan' = [chan EXCEPT !.receiver = FALSE]
    /\ UNCHANGED <<tui, term, thr, status, typed, opts, polled, did,
                   ovVars, mergeVars, itemVars>>

\* Input thread: term_clone.poll_event() returns an event.  User1 ends the
\* loop; any other event is translated.
ThreadPoll ==
    /\ thr.pc = "poll"
    /\ term.queue # <<>>
    /\ term' = [term EXCEPT !.queue = Tail(term.queue)]
    /\ polled' = Append(polled, Head(term.queue))
    /\ thr' = IF Head(term.queue) = User1
              THEN [pc |-> "exited", pending |-> <<>>]
              ELSE LET evs == translate_event(Head(term.queue)) IN
                   [pc |-> IF evs = <<>> THEN "poll" ELSE "send", pending |-> evs]
    /\ UNCHANGED <<tui, chan, status, typed, opts, did, ovVars, mergeVars, itemVars>>

PollErrs == Cardinality({i \in 1..Len(polled) : polled[i] = "Err"})

\* A faulty loop: a failed poll_event ends it.
ThreadPollErrBreaks ==
    /\ thr.pc = "poll"
    /\ PollErrs < MaxPollErr
    /\ polled' = Append(polled, "Err")
    /\ thr' = [pc |-> "exited", pending |-> <<>>]
    /\ UNCHANGED <<tui, term, chan, status, typed, opts, did, ovVars, mergeVars, itemVars>>

\* Input thread: term_clone.poll_event() returns an Err; the loop goes on.
ThreadPollErr ==
    /\ thr.pc = "poll"
    /\ PollErrs < MaxPollErr
    /\ polled' = Append(polled, "Err")
    /\ UNCHANGED <<thr, tui, term, chan, status, typed, opts, did,
                   ovVars, mergeVars, itemVars>>

\* A faulty loop: the events after the first one are not sent.
ThreadSendOnlyFirst ==
    /\ thr.pc = "send"
    /\ chan' = IF chan.receiver
               THEN [chan EXCEPT !.sent = Append(chan.sent, Head(thr.pending))]
               ELSE chan
    /\ thr' = [pc |-> "poll", pending |-> <<>>]
    /\ UNCHANGED <<tui, term, status, typed, opts, polled, did,
                   ovVars, mergeVars, itemVars>>

\* Input thread: tx_clone.send(ev) for the next translated event; an Err (the
\* receiver is gone) is dropped.
ThreadSend ==
    /\ thr.pc = "send"
    /\ chan' = IF chan.receiver
               THEN [chan EXCEPT !.sent = Append(chan.sent, Head(thr.pending))]
               ELSE chan
    /\ thr' = [pc |-> IF Tail(thr.pending) = <<>> THEN "poll" ELSE "send",
               pending |-> Tail(thr.pending)]
    /\ UNCHANGED <<tui, term, status, typed, opts, polled, did,
                   ovVars, mergeVars, itemVars>>

InitTui ==
    /\ new("ByKey")
    /\ NoHistory
    /\ MergeIdle
    /\ NoTui
    /\ NoItem

NextTui ==
    \/ TuiNew
    \/ TuiRender
    \/ TuiWithTerm
    \/ TuiFinish
    \/ TermKey
    \/ ReceiverDropped
    \/ ThreadPoll
    \/ ThreadPollErr
    \/ ThreadSend

SpecTui == InitTui /\ [][NextTui]_vars

(***************************************************************************)
(* SpecFinish: with_term and finish called on a TUI value of each of the   *)
(* four shapes of (term, input_thread), while the terminal produces events *)
(* and the input thread runs its loop.  The shape (Some, Some) is the      *)
(* value render builds at its last two statements; a TUI that holds an     *)
(* input thread comes with that thread polling the terminal.  (Under       *)
(* SpecTui no caller holds a value of that shape: render owns it.)         *)
(***************************************************************************)
TuiValues ==
    [state : {"held"}, term : {None, Some("Term")},
     input_thread : {None, Some("JoinHandle")}, no_mouse : BOOLEAN,
     min_height : {Some(parse_height_string(<<"1", "0">>))},
     height : {Some(parse_height_string(<<"5", "0", "%">>))}]

InitFinish ==
    /\ new("ByKey")
    /\ NoHistory
    /\ MergeIdle
    /\ NoItem
    /\ tui \in TuiValues
    /\ term = IF tui.term = None /\ tui.input_thread = None
              THEN NoTerm
              ELSE [NoTerm EXCEPT !.acquired = "ok",
                                  !.min_height = tui.min_height,
                                  !.height = tui.height,
                                  !.mouse = ~tui.no_mouse]
    /\ thr = [pc |-> IF tui.input_thread = None THEN "none" ELSE "poll",
              pending |-> <<>>]
    /\ chan = [sent |-> <<>>, receiver |-> TRUE]
    /\ status = "running"
    /\ typed = 0
    /\ opts = Some([min_height |-> Some(<<"1", "0">>),
                    height |-> Some(<<"5", "0", "%">>),
                    no_mouse |-> tui.no_mouse])
    /\ polled = <<>>
    /\ did = <<>>

NextFinish ==
    \/ TuiWithTerm
    \/ TuiFinish
    \/ TuiFinishJoin
    \/ TuiFinishPause
    \/ TermKey
    \/ ReceiverDropped
    \/ ThreadPoll
    \/ ThreadPollErr
    \/ ThreadSend

SpecFinish == InitFinish /\ [][NextFinish]_vars

\* The scheduler runs the input thread and the thread that called finish, and
\* the terminal hands over the events it has queued: a call of poll_event with
\* an event in the queue, a send, and a join of a thread that has ended do
\* return.
FairFinish ==
    /\ WF_vars(ThreadPoll)
    /\ WF_vars(ThreadSend)
    /\ WF_vars(TuiFinishJoin)
    /\ WF_vars(TuiFinishPause)

SpecFinishFair == SpecFinish /\ FairFinish

(***************************************************************************)
(* SpecHeight: TUI::new given every height string of at most MaxHeightLen  *)
(* characters (digits, '%', '+' and a letter), or none, for one of the two *)
(* heights, and one of HeightOptions for the other.                        *)
(***************************************************************************)
HeightChars == {"0", "1", "%", "+", "x"}

HeightStrings == UNION {[1..n -> HeightChars] : n \in 0..MaxHeightLen}

AnyHeightOptions == {None} \cup {Some(str) : str \in HeightStrings}

SkimOptionsAnyHeight ==
    [min_height : AnyHeightOptions, height : HeightOptions, no_mouse : BOOLEAN]
    \cup [min_height : HeightOptions, height : AnyHeightOptions, no_mouse : BOOLEAN]

TuiNewAnyHeight ==
    /\ status = "running"
    /\ tui.state = "none"
    /\ \E options \in SkimOptionsAnyHeight : TuiNewFrom(options)
    /\ UNCHANGED <<term, thr, chan, typed, polled, did, ovVars, mergeVars, itemVars>>

InitHeight ==
    /\ new("ByKey")
    /\ NoHistory
    /\ MergeIdle
    /\ NoTui
    /\ NoItem

NextHeight == TuiNewAnyHeight

SpecHeight == InitHeight /\ [][NextHeight]_vars

(***************************************************************************)
(* SkimItem (src/src/lib.rs).  The text of an item is made of the          *)
(* characters "a" (one byte) and "e'" (two bytes) and of the SGR escape    *)
(* sequence ESC [ 1 m (four characters of one byte).                       *)
(***************************************************************************)
ESC == "ESC"

Chunks == {<<"a">>, <<"e'">>, <<ESC, "[", "1", "m">>}

RECURSIVE Texts(_)
Texts(n) ==
    IF n = 0 THEN {<<>>}
    ELSE Texts(n - 1) \cup {t \o c : t \in Texts(n - 1), c \in Chunks}

ItemTexts == Texts(MaxChunks)

\* str::len: the length in bytes.
RECURSIVE ByteLen(_)
ByteLen(str) ==
    IF str = <<>> THEN 0
    ELSE (IF Head(str) = "e'" THEN 2 ELSE 1) + ByteLen(Tail(str))

\* AnsiString::from(&str): the text parsed, its SGR sequences (ESC [ ... m)
\* taken out of the stripped text.
RECURSIVE StripFrom(_, _, _)
StripFrom(str, i, inside) ==
    IF i > Len(str) THEN <<>>
    ELSE IF inside THEN StripFrom(str, i + 1, str[i] # "m")
    ELSE IF str[i] = ESC THEN StripFrom(str, i + 1, TRUE)
    ELSE <<str[i]>> \o StripFrom(str, i + 1, FALSE)

AnsiStringFrom(str) == [stripped |-> StripFrom(str, 1, FALSE)]

\* AnsiString::stripped
stripped(ansi) == ansi.stripped

\* The implementations of SkimItem: the blanket one for a T: AsRef<str>, and
\* implementations of their own, which give display and text and may override
\* output and get_matching_ranges (preview plays no part here).
SkimItems ==
    [kind : {"str"}, s : ItemTexts]
    \cup [kind : {"impl"}, text : ItemTexts,
          display : {AnsiStringFrom(t) : t \in ItemTexts},
          output : {None, Some(<<"a", "a", "a">>)},
          ranges : {None, Some(<< <<0, 1>>, <<2, 3>> >>)}]

\* SkimItem::display
display(it) == IF it.kind = "str" THEN AnsiStringFrom(it.s) ELSE it.display

\* SkimItem::text
text(it) == IF it.kind = "str" THEN it.s ELSE it.text

\* SkimItem::output, by default text()
output(it) ==
    IF it.kind = "impl" /\ it.output # None THEN it.output[1] ELSE text(it)

\* A faulty default: the range spans the byte length of text().
matching_ranges_of_text(it) ==
    IF it.kind = "impl" /\ it.ranges # None THEN it.ranges[1]
    ELSE << <<0, ByteLen(text(it))>> >>

\* SkimItem::get_matching_ranges, by default the whole stripped display text
get_matching_ranges(it) ==
    IF it.kind = "impl" /\ it.ranges # None THEN it.ranges[1]
    ELSE << <<0, ByteLen(stripped(display(it)))>> >>

ItemMake ==
    /\ item = None
    /\ \E it \in SkimItems : item' = Some(it)
    /\ UNCHANGED <<calls, ovVars, mergeVars, tuiVars>>

ItemGetMatchingRanges ==
    /\ item # None
    /\ calls' = [calls EXCEPT !.ranges = Some(get_matching_ranges(item[1]))]
    /\ UNCHANGED <<item, ovVars, mergeVars, tuiVars>>

ItemOutput ==
    /\ item # None
    /\ calls' = [calls EXCEPT !.output = Some(output(item[1]))]
    /\ UNCHANGED <<item, ovVars, mergeVars, tuiVars>>

ItemText ==
    /\ item # None
    /\ calls' = [calls EXCEPT !.text = Some(text(item[1]))]
    /\ UNCHANGED <<item, ovVars, mergeVars, tuiVars>>

InitItem ==
    /\ new("ByKey")
    /\ NoHistory
    /\ MergeIdle
    /\ NoTui
    /\ NoItem

NextItem == ItemMake \/ ItemGetMatchingRanges \/ ItemOutput \/ ItemText

SpecItem == InitItem /\ [][NextItem]_vars

(***************************************************************************)
(* Properties of the ordered buffer.                                       *)
(***************************************************************************)
Elements(s) == {s[i] : i \in 1..Len(s)}

\* C1: after any sequence of append_ordered calls (empty batches included, the
\* comparator a total preorder), the first min(ORDERED_SIZE, len) elements of
\* the buffer are in non-decreasing comparator order.
PrefixOrdered ==
    \A i, j \in 1..Min(ORDERED_SIZE, len) :
        i < j => CompareFunction(compare, vec[i], vec[j]) # "Greater"

\* A buffer filled by several batches, the last one of two items, whose
\* smallest item arrived last.
PrefixOrderedWitness ==
    /\ last.op = "append"
    /\ last.mid >= 1
    /\ last.len - last.mid >= 2
    /\ len = last.len
    /\ vec[1].idx > vec[len].idx
    /\ vec[1].key < vec[len].key

\* C2: get(i) returns the item of rank i for every i < len, beyond
\* ORDERED_SIZE too: an element at an index below ORDERED_SIZE is less than or
\* equal to every element at an index from ORDERED_SIZE on, the element get(i)
\* returns is less than or equal to every element at a higher index, and
\* get(i) is None for i >= len.
GetReturnsRank ==
    /\ \A i \in 0..(len - 1) :
          /\ get(i) # None
          /\ get(i)[1] \in appended
          /\ \A j \in (i + 1)..(len - 1) :
                CompareFunction(compare, get(i)[1], iter[j + 1]) # "Greater"
    /\ \A i \in 0..(ORDERED_SIZE - 1) : \A j \in ORDERED_SIZE..(len - 1) :
          i < len => CompareFunction(compare, vec[i + 1], vec[j + 1]) # "Greater"
    /\ \A i \in len..(len + 2) : get(i) = None

\* A buffer longer than ORDERED_SIZE whose last call merged a late item into
\* the first ORDERED_SIZE, pushing items of the large batch beyond them.
GetReturnsRankWitness ==
    /\ len >= ORDERED_SIZE + 2
    /\ last.op = "append"
    /\ last.mid > ORDERED_SIZE
    /\ get(ORDERED_SIZE) # None
    /\ get(ORDERED_SIZE)[1].idx <= BigN
    /\ get(ORDERED_SIZE + 1)[1].idx <= BigN
    /\ \E i \in 0..(ORDERED_SIZE - 1) : get(i)[1].idx = BigN + BigExtra

\* C3: append_ordered merges stably.  In a step that appends a non-empty batch,
\* the items already in the buffer keep their relative order, and an item
\* already in the buffer precedes every new item it compares Equal to.
StableMergeStep ==
    (appended' # appended /\ appended \subseteq appended') =>
        /\ SelectSeq(vec', LAMBDA x : x \in Elements(vec)) = vec
        /\ \A i, j \in 1..Len(vec') :
              ( /\ vec'[i] \in Elements(vec)
                /\ vec'[j] \notin Elements(vec)
                /\ CompareFunction(compare, vec'[i], vec'[j]) = "Equal" ) => i < j

StableMerge == [][StableMergeStep]_vars

\* Both merge branches have had to order an old and a new item comparing
\* Equal, the backward one in the last call, where the item of the largest
\* insertion index does not stand last.
StableMergeWitness ==
    /\ seen = {"fwd", "bwd"}
    /\ last.op = "append"
    /\ last.mid > last.len - last.mid
    /\ \E i \in 1..(len - 1) : vec[i].key = vec[i + 1].key
    /\ \E i \in 1..(len - 1) : vec[i].idx > vec[i + 1].idx

\* C4: with a comparator whose final tie-break is the insertion index, the
\* first ORDERED_SIZE elements are a function of the set of items appended
\* alone (the element at index i is the item with exactly i smaller items in
\* that set), whatever the batches the items arrived in, their order and the
\* order inside them.
DeterministicOrder ==
    compare = "ByKeyIdx" =>
        \A i \in 1..Min(ORDERED_SIZE, len) :
            /\ vec[i] \in appended
            /\ Cardinality({y \in appended :
                    CompareByKeyIdx(y, vec[i]) = "Less"}) = i - 1

\* Items of equal keys, whose order the insertion index decides, arrived in
\* several batches and not in the order of their indices.
DeterministicOrderWitness ==
    /\ compare = "ByKeyIdx"
    /\ last.op = "append"
    /\ last.mid >= 1
    /\ last.len - last.mid >= 2
    /\ len = MaxLen
    /\ \E i \in 1..(len - 1) : vec[i].key = vec[i + 1].key
    /\ \E i \in 1..(len - 1) : vec[i].idx > vec[i + 1].idx

\* C5: after clear, len() is 0 and is_empty() is true, and from then on the
\* buffer holds exactly the items appended after the clear, in comparator
\* order: no item of an earlier generation is returned by get or iter.
ClearForgets ==
    /\ last.op = "clear" => len = 0 /\ is_empty
    /\ \A i \in 0..(len - 1) : get(i) # None /\ get(i)[1].gen = epoch
    /\ epoch > 0 =>
          /\ Elements(iter) = appended
          /\ IsSorted(compare, iter)

\* Items were removed by a clear, and batches were appended after it.
ClearForgetsWitness ==
    /\ epoch > 0
    /\ dropped >= 2
    /\ last.op = "append"
    /\ last.mid >= 1
    /\ len >= 3

\* C8: the buffer holds exactly the items appended since the last clear, each
\* once, so len() is their number.
Conservation ==
    /\ len = Cardinality(appended)
    /\ Elements(vec) = appended

\* Both kinds of merge have run: the last call appended a batch shorter than
\* the buffer, to a buffer an earlier clear had emptied.
ConservationWitness ==
    /\ last.op = "append"
    /\ last.mid > last.len - last.mid
    /\ last.len - last.mid >= 1
    /\ len = MaxLen
    /\ dropped >= 1
    /\ vec[1].idx > vec[2].idx

\* C10: every call of merge made by append_ordered satisfies the safety
\* preconditions merge documents: both runs non-empty, mid in bounds, and the
\* buffer long enough for a copy of the shorter run.
MergePreconditions ==
    last.op = "append" =>
        /\ 0 < last.mid
        /\ last.mid < last.len
        /\ Min(last.mid, last.len - last.mid) <= last.cap

\* C9: for every v made of the non-decreasing runs v[..mid] and v[mid..] and
\* every buf that can hold the shorter run, merge leaves in v the stable merge
\* of the two runs: a non-decreasing arrangement of the elements v held, in
\* which elements comparing Equal keep the order they had in v (the element
\* at position k is the one that k - 1 elements precede by key, then by
\* original position).  In the forward and in the backward branch alike.
MergeIsStableMerge ==
    mpc = "done" =>
        /\ Len(mg.v) = Len(margs.v)
        /\ IsSorted("ByKey", mg.v)
        /\ \A k \in 1..Len(mg.v) :
              /\ mg.v[k] \in Elements(margs.v)
              /\ Cardinality({y \in Elements(margs.v) :
                      CompareByKeyIdx(y, mg.v[k]) = "Less"}) = k - 1

\* Both branches have returned after ordering elements comparing Equal, the
\* last call through the backward branch with both runs interleaved.
MergeIsStableMergeWitness ==
    /\ mpc = "done"
    /\ mdone = {"fwd", "bwd"}
    /\ ~mg.fwd
    /\ margs.mid < Len(margs.v)
    /\ mg.v # margs.v
    /\ mg.v[Len(mg.v)].idx <= margs.mid

\* The slots of v outside the hole: before hole.dest, and from right (forward
\* branch) or out (backward branch) on.
OutsideHole(m) ==
    {p \in 1..m.len : p <= m.dest \/ p > (IF m.fwd THEN m.right ELSE m.out)}

HoleSlots(m) == (IF m.fwd THEN m.right ELSE m.out) - m.dest

\* C11: panic safety of merge.  At every step of either loop the elements of v
\* outside the hole and the range start..end of buf are together the elements
\* v held at the call, each once, and the hole has end - start slots; when
\* is_less panics, the drop of hole leaves in v every element it held at the
\* call exactly once.
MergePanicSafe ==
    /\ mpc = "loop" =>
          LET kept == {mg.v[p] : p \in OutsideHole(mg)}
              inbuf == {mg.buf[q] : q \in (mg.start + 1)..mg.end}
          IN /\ HoleSlots(mg) = mg.end - mg.start
             /\ kept \cup inbuf = Elements(margs.v)
             /\ Cardinality(kept) = Cardinality(OutsideHole(mg))
             /\ Cardinality(inbuf) = mg.end - mg.start
             /\ kept \cap inbuf = {}
    /\ mpc = "panicked" =>
          /\ Len(mg.v) = Len(margs.v)
          /\ Elements(mg.v) = Elements(margs.v)
          /\ Cardinality(Elements(mg.v)) = Len(mg.v)

\* is_less panicked in the forward branch after elements of both runs had
\* been consumed, with elements of the left run still in buf only: the drop
\* of hole left v an arrangement other than the one it had at the call.
MergePanicSafeWitness ==
    /\ mpc = "panicked"
    /\ mg.fwd
    /\ mg.start >= 1
    /\ mg.right > margs.mid
    /\ mg.end - mg.start >= 1
    /\ mg.v # margs.v

(***************************************************************************)
(* Properties of the terminal UI and of the items.                         *)
(***************************************************************************)
\* C6: when the terminal cannot be acquired, TUI::render does not crash the
\* program (the failure is an outcome the coordinator can exit on), and no
\* input thread is started.
TerminalUnavailableSurfaced ==
    term.acquired = "failed" =>
        /\ status # "panicked"
        /\ thr.pc = "none"

\* The calls finish makes on a TUI holding a terminal and an input thread.
FinishCalls == <<"send_event", "join", "pause">>

FinishInOrderState ==
    /\ Len(did) <= Len(FinishCalls)
    /\ did = SubSeq(FinishCalls, 1, Len(did))
    /\ Len(did) >= 2 => thr.pc = "exited"
    /\ term.paused => (thr.pc = "exited" /\ did = FinishCalls)
    /\ (\E i \in 1..Len(term.queue) : term.queue[i] = User1) => did # <<>>

FinishInOrderStep ==
    /\ did' # did =>
          /\ tui.state \in {"held", "joining", "joined"}
          /\ did = <<>> => (tui.term # None /\ tui.input_thread # None)
    /\ ( /\ tui.state = "held"
         /\ tui'.state = "dropped"
         /\ (tui.term = None \/ tui.input_thread = None) ) =>
          UNCHANGED <<term, thr, chan, did>>

\* C12: finish on a TUI holding a terminal and an input thread sends the
\* wakeup User1, then joins the input thread, then pauses the terminal; the
\* terminal is not paused while the input thread runs.  With the terminal or
\* the input thread absent, finish sends, joins and pauses nothing.
FinishInOrder == []FinishInOrderState /\ [][FinishInOrderStep]_vars

\* finish has run to its end on a TUI whose input thread had polled a key
\* before it polled the wakeup.
FinishInOrderWitness ==
    /\ did = FinishCalls
    /\ tui.state = "dropped"
    /\ tui.term = None
    /\ tui.input_thread = None
    /\ thr.pc = "exited"
    /\ term.paused
    /\ Len(polled) >= 2
    /\ polled[1] \in Keys

RenderedTuiCanBeShutDown ==
    thr.pc \in {"poll", "send"} =>
        /\ tui.state \in {"held", "joining"}
        /\ tui.term # None
        /\ tui.input_thread # None

\* The events the translation of the polled terminal events yields, in the
\* order polled (a failed poll and the wakeup yield none).
RECURSIVE Translated(_)
Translated(events) ==
    IF events = <<>> THEN <<>>
    ELSE Translated(SubSeq(events, 1, Len(events) - 1))
         \o (IF events[Len(events)] \in Keys
             THEN translate_event(events[Len(events)]) ELSE <<>>)

ForwardedInOrderState ==
    LET all == Translated(polled)
        handed == SubSeq(all, 1, Len(all) - Len(thr.pending))
    IN /\ Len(thr.pending) <= Len(all)
       /\ all = handed \o thr.pending
       /\ Len(chan.sent) <= Len(handed)
       /\ chan.sent = SubSeq(handed, 1, Len(chan.sent))
       /\ chan.receiver => chan.sent = handed
       /\ (thr.pc = "send") = (thr.pending # <<>>)
       /\ \A i \in 1..Len(chan.sent) : chan.sent[i] # User1
       /\ \A i \in 1..Len(polled) :
             polled[i] = User1 => (i = Len(polled) /\ thr.pc = "exited")

ForwardedInOrderStep ==
    /\ polled' # polled => thr.pending = <<>>
    /\ (\E i \in 1..Len(polled) : polled[i] = User1) =>
          (chan.sent' = chan.sent /\ polled' = polled)

\* C15: the events translated from a polled terminal event are all handed to
\* the channel, in the order produced, before the next terminal event is
\* polled, so the coordinator receives the events in the order the terminal
\* events were polled (all of them while it keeps the receiver); the wakeup
\* User1 is not forwarded, and nothing is polled or sent after it.
ForwardedInOrder == []ForwardedInOrderState /\ [][ForwardedInOrderStep]_vars

\* A key bound to two events, then a key bound to one, then the wakeup: the
\* coordinator received the three events in that order.
ForwardedInOrderWitness ==
    /\ polled = <<"b", "a", User1>>
    /\ chan.sent = <<"EvB1", "EvB2", "EvA">>
    /\ chan.receiver
    /\ thr.pc = "exited"

\* C16: the input thread leaves its loop only by polling the wakeup User1.  A
\* failed poll_event and a failed send are dropped and the thread polls
\* again: as long as it has not polled User1, a spawned thread is in its loop.
LeavesLoopOnlyOnUser1 ==
    /\ thr.pc = "exited" => (polled # <<>> /\ polled[Len(polled)] = User1)
    /\ (thr.pc # "none" /\ \A i \in 1..Len(polled) : polled[i] # User1) =>
          thr.pc \in {"poll", "send"}

\* The thread is polling again after a send that failed (the receiver was
\* gone before the first event was sent), a failed poll_event, and two more
\* failed sends.
LeavesLoopOnlyOnUser1Witness ==
    /\ polled = <<"a", "Err", "b">>
    /\ ~chan.receiver
    /\ chan.sent = <<>>
    /\ thr = [pc |-> "poll", pending |-> <<>>]

\* Is str a valid number (decimal digits, at least one, after an optional
\* '+'), and which one: the sum of its digits times their powers of ten.
NumberDigits(str) == IF str # <<>> /\ str[1] = "+" THEN Tail(str) ELSE str

IsNumber(str) ==
    /\ NumberDigits(str) # <<>>
    /\ \A i \in 1..Len(NumberDigits(str)) :
          NumberDigits(str)[i] \in {"0", "1", "2", "3", "4", "5", "6", "7", "8", "9"}

RECURSIVE PlaceSum(_, _)
PlaceSum(ds, i) ==
    IF i > Len(ds) THEN 0
    ELSE (CHOOSE d \in 0..9 : Digits[d + 1] = ds[i]) * 10 ^ (Len(ds) - i)
         + PlaceSum(ds, i + 1)

NumberOf(str) == PlaceSum(NumberDigits(str), 1)

\* The height the claim gives for a height string.
HeightClaimed(str) ==
    LET percent == str # <<>> /\ str[Len(str)] = "%"
        prefix == SubSeq(str, 1, Len(str) - 1)
    IN IF percent /\ IsNumber(prefix) THEN [kind |-> "Percent", n |-> NumberOf(prefix)]
       ELSE IF IsNumber(str) THEN [kind |-> "Fixed", n |-> NumberOf(str)]
       ELSE IF percent THEN [kind |-> "Percent", n |-> 100]
       ELSE [kind |-> "Fixed", n |-> 0]

\* C17: parse_height_string gives Percent(N) for a valid number N followed by
\* '%', Fixed(N) for a valid number N, Percent(100) for an invalid string
\* ending in '%' and Fixed(0) for any other string, and never fails; TUI::new
\* fails exactly when height or min_height is absent.
HeightsParsed ==
    opts # None =>
        IF opts[1].min_height = None \/ opts[1].height = None
        THEN status = "panicked" /\ tui.state = "none"
        ELSE /\ status = "running"
             /\ tui.state = "held"
             /\ tui.min_height = Some(HeightClaimed(opts[1].min_height[1]))
             /\ tui.height = Some(HeightClaimed(opts[1].height[1]))

\* A signed number followed by '%' for one height, a plain number for the
\* other.
HeightsParsedWitness ==
    /\ opts # None
    /\ opts[1].height = Some(<<"+", "1", "%">>)
    /\ opts[1].min_height = Some(<<"1", "0">>)
    /\ tui.state = "held"
    /\ tui.height = Some([kind |-> "Percent", n |-> 1])
    /\ tui.min_height = Some([kind |-> "Fixed", n |-> 10])

\* Is position p of str inside an escape sequence (an ESC at or before p with
\* no closing "m" between the two)?
InsideEscape(str, p) ==
    \E a \in 1..p : str[a] = ESC /\ \A q \in a..(p - 1) : str[q] # "m"

\* The bytes of the characters of str outside its escape sequences.
VisibleBytes(str) ==
    LET visible == {p \in 1..Len(str) : ~InsideEscape(str, p)} IN
    Cardinality(visible) + Cardinality({p \in visible : str[p] = "e'"})

\* The number of bytes a default get_matching_ranges is to span.
DefaultRangeEnd(it) ==
    IF it.kind = "str" THEN VisibleBytes(it.s) ELSE ByteLen(it.display.stripped)

OverridesRanges(it) == it.kind = "impl" /\ it.ranges # None

OverridesOutput(it) == it.kind = "impl" /\ it.output # None

\* C7 as stated: for every item that does not override get_matching_ranges,
\* the matching ranges are the one range (0, n), n the byte length of the
\* stripped display text, and output() equals text().
DefaultRangesAndOutput ==
    (item # None /\ ~OverridesRanges(item[1])) =>
        /\ calls.ranges # None =>
              calls.ranges[1] = << <<0, DefaultRangeEnd(item[1])>> >>
        /\ (calls.output # None /\ calls.text # None) =>
              calls.output = calls.text

\* C7 amended: the matching ranges of an item that does not override
\* get_matching_ranges are the one range (0, n), n the byte length of the
\* stripped display text; output() equals text() for an item that does not
\* override output (every plain-string item is of both kinds).
DefaultRangesAndDefaultOutput ==
    item # None =>
        /\ (~OverridesRanges(item[1]) /\ calls.ranges # None) =>
              calls.ranges[1] = << <<0, DefaultRangeEnd(item[1])>> >>
        /\ (~OverridesOutput(item[1]) /\ calls.output # None /\ calls.text # None) =>
              calls.output = calls.text

\* A plain string with an escape sequence and a two-byte character, all three
\* methods called: the range ends before the byte length of the text.
DefaultRangesAndDefaultOutputWitness ==
    /\ item # None
    /\ item[1].kind = "str"
    /\ \E p \in 1..Len(item[1].s) : item[1].s[p] = ESC
    /\ \E p \in 1..Len(item[1].s) : item[1].s[p] = "e'"
    /\ calls.ranges = Some(<< <<0, 2>> >>)
    /\ calls.output # None
    /\ calls.text = Some(item[1].s)

====
